---- MODULE Spec2Model ----
(***************************************************************************)
(* ProctorVision: the per-frame violation detection pipeline               *)
(* (AttentionMonitor in detection.py) and its two callers, the /api/detect *)
(* handler of backend_server.py and the live-preview loop run().           *)
(*                                                                         *)
(* Strings the code inspects character by character (detector labels and   *)
(* catalog keys) are sequences of one-character strings.  The landmark     *)
(* provider and the object detector are outside the code: a frame is       *)
(* represented by what they report for it.                                 *)
(***************************************************************************)
EXTENDS Integers, Sequences, FiniteSets, TLC

VARIABLES
    frame,                \* the frame most recently read (cap.read / upload)
    hashOrder,            \* per process: iteration order of a set of strings
    DETECTION_AVAILABLE,  \* backend_server: did `import detection` succeed
    running,              \* run(): the while-loop has not been left
    last                  \* outcome of the most recent handler execution

vars == <<frame, hashOrder, DETECTION_AVAILABLE, running, last>>

----------------------------------------------------------------------------
(* Bounds of the model.                                                    *)

MaxFaces == 2     \* face landmark sets per frame
MaxHands == 3     \* hand landmark sets per frame
MaxDet == 2       \* boxes the object detector reports per frame

Range(s) == {s[i] : i \in 1..Len(s)}

SeqsUpTo(S, n) == UNION {[1..k -> S] : k \in 0..n}

Perms(S) == {s \in [1..Cardinality(S) -> S] : Range(s) = S}

----------------------------------------------------------------------------
(* Strings.                                                                *)

UpperChars == <<"A","B","C","D","E","F","G","H","I","J","K","L","M",
                "N","O","P","Q","R","S","T","U","V","W","X","Y","Z">>

LowerChars == <<"a","b","c","d","e","f","g","h","i","j","k","l","m",
                "n","o","p","q","r","s","t","u","v","w","x","y","z">>

\* str.lower() on one character
LowerChar(c) ==
    IF \E i \in 1..Len(UpperChars) : UpperChars[i] = c
    THEN LowerChars[CHOOSE i \in 1..Len(UpperChars) : UpperChars[i] = c]
    ELSE c

\* label.lower()
StrLower(s) == [i \in 1..Len(s) |-> LowerChar(s[i])]

\* `k in s` for strings
IsSubstring(k, s) ==
    \E i \in 0..(Len(s) - Len(k)) : SubSeq(s, i + 1, i + Len(k)) = k

----------------------------------------------------------------------------
(* detect_gadget                                                           *)

\* prohibited_items, in the dict's insertion (= enumeration) order
prohibited_items == <<
    [key |-> <<"c","e","l","l"," ","p","h","o","n","e">>, display |-> "Mobile Phone"],
    [key |-> <<"l","a","p","t","o","p">>,                 display |-> "Laptop Computer"],
    [key |-> <<"k","e","y","b","o","a","r","d">>,         display |-> "External Keyboard"],
    [key |-> <<"t","v">>,                                 display |-> "TV/Monitor"],
    [key |-> <<"r","e","m","o","t","e">>,                 display |-> "Remote Control"],
    [key |-> <<"m","o","u","s","e">>,                     display |-> "Computer Mouse"],
    [key |-> <<"t","a","b","l","e","t">>,                 display |-> "Tablet Device"],
    [key |-> <<"b","o","o","k">>,                         display |-> "Book/Notes"],
    [key |-> <<"b","o","t","t","l","e">>,                 display |-> "Water Bottle"],
    [key |-> <<"c","u","p">>,                             display |-> "Cup/Mug"],
    [key |-> <<"s","m","a","r","t","p","h","o","n","e">>, display |-> "Smartphone"],
    [key |-> <<"c","a","l","c","u","l","a","t","o","r">>, display |-> "Calculator"],
    [key |-> <<"h","e","a","d","p","h","o","n","e","s">>, display |-> "Headphones/Earphones"],
    [key |-> <<"m","i","c","r","o","p","h","o","n","e">>, display |-> "Microphone"],
    [key |-> <<"c","a","m","e","r","a">>,                 display |-> "Camera Device"],
    [key |-> <<"w","a","t","c","h">>,                     display |-> "Smart Watch"],
    [key |-> <<"g","l","a","s","s","e","s">>,             display |-> "Smart Glasses"] >>

\* The detector's labels are held by name; Chars gives a label's characters.
L_cell_phone == <<"c","e","l","l"," ","p","h","o","n","e">>
L_Cell_Phone == <<"C","e","l","l"," ","P","h","o","n","e">>
L_cellphone_case == <<"c","e","l","l","p","h","o","n","e"," ","c","a","s","e">>
L_keyboard_laptop == <<"k","e","y","b","o","a","r","d"," ","l","a","p","t","o","p">>
L_laptop == <<"l","a","p","t","o","p">>
L_LAPTOP == <<"L","A","P","T","O","P">>
L_person == <<"p","e","r","s","o","n">>

Chars(label) ==
    CASE label = "cell phone" -> L_cell_phone
      [] label = "Cell Phone" -> L_Cell_Phone
      [] label = "cellphone case" -> L_cellphone_case
      [] label = "keyboard laptop" -> L_keyboard_laptop
      [] label = "laptop" -> L_laptop
      [] label = "LAPTOP" -> L_LAPTOP
      [] label = "person" -> L_person

RECURSIVE SubstringLoop_nobreak(_, _)
\* the loop without its break: every key contained in the label is appended
SubstringLoop_nobreak(label, i) ==
    IF i > Len(prohibited_items) THEN <<>>
    ELSE IF IsSubstring(prohibited_items[i].key, StrLower(Chars(label)))
         THEN <<prohibited_items[i].display>> \o SubstringLoop_nobreak(label, i + 1)
         ELSE SubstringLoop_nobreak(label, i + 1)

RECURSIVE SubstringLoop(_, _)
\* detection.py 54-57: for item_key, item_display in prohibited_items.items():
\* append the display name of the first key contained in label.lower(), break
SubstringLoop(label, i) ==
    IF i > Len(prohibited_items) THEN <<>>
    ELSE IF IsSubstring(prohibited_items[i].key, StrLower(Chars(label)))
         THEN <<prohibited_items[i].display>>
         ELSE SubstringLoop(label, i + 1)

\* detection.py 60-61: if label in prohibited_items: append prohibited_items[label]
ExactLookup(label) ==
    IF \E i \in 1..Len(prohibited_items) : prohibited_items[i].key = Chars(label)
    THEN <<prohibited_items[CHOOSE i \in 1..Len(prohibited_items) :
                                prohibited_items[i].key = Chars(label)].display>>
    ELSE <<>>

\* results[0].names[cls_id]: the label vocabulary is open
AllLabels == {"cell phone", "Cell Phone", "cellphone case", "keyboard laptop",
              "laptop", "LAPTOP", "person"}

\* what the loop over the catalog (detection.py 54-57) appends, per label
SubstringHits == [label \in AllLabels |-> SubstringLoop(label, 1)]

\* what the lookup of the raw label (detection.py 60-61) appends, per label
ExactHits == [label \in AllLabels |-> ExactLookup(label)]

\* what one box appends to `gadgets` (detection.py 54-61), per label
BoxGadgets == [label \in AllLabels |-> SubstringHits[label] \o ExactHits[label]]

RECURSIVE BoxLoop(_)
\* detection.py 49-61: the list `gadgets` after the loop over results[0].boxes
BoxLoop(boxes) ==
    IF boxes = <<>> THEN <<>>
    ELSE BoxGadgets[Head(boxes)] \o BoxLoop(Tail(boxes))

\* list(set(gadgets)): each element once, in the order the process's string
\* hashing gives (str hashes are seeded per interpreter process)
ListOfSet(gadgets, order) == SelectSeq(order, LAMBDA d : d \in Range(gadgets))

\* the list returned as collected, without set(): repeats kept
detect_gadget_nodedup(boxes, p) == BoxLoop(boxes)

detect_gadget(boxes, p) == ListOfSet(BoxLoop(boxes), hashOrder[p])

----------------------------------------------------------------------------
(* detect_head_turn                                                        *)

Deadband == 60

\* A face landmark set is represented by landmark[1].x, the normalised nose
\* abscissa, as a rational <<numerator, denominator>>.  The code multiplies
\* in floating point; the values used below classify the same way there.

\* both comparisons made inclusive
detect_head_turn_inclusive(face_landmarks, w) ==
    LET center_x == w \div 2 IN
    IF face_landmarks[1] * w <= (center_x - Deadband) * face_landmarks[2]
        THEN "Looking Left"
    ELSE IF face_landmarks[1] * w >= (center_x + Deadband) * face_landmarks[2]
        THEN "Looking Right"
    ELSE "Looking Forward"

\* detection.py 65-75; nose_x = nose.x * w is compared with center_x -/+ 60
\* after clearing the denominator of nose.x
detect_head_turn(face_landmarks, w) ==
    LET center_x == w \div 2 IN
    IF face_landmarks[1] * w < (center_x - Deadband) * face_landmarks[2]
        THEN "Looking Left"
    ELSE IF face_landmarks[1] * w > (center_x + Deadband) * face_landmarks[2]
        THEN "Looking Right"
    ELSE "Looking Forward"

----------------------------------------------------------------------------
(* process_frame                                                           *)

\* only the first face landmark set is classified
FaceLoop_first(faces, w, head_status) ==
    IF faces = <<>> THEN head_status
    ELSE detect_head_turn(Head(faces), w)

RECURSIVE FaceLoop(_, _, _)
\* detection.py 83-86: every face landmark set overwrites head_status
FaceLoop(faces, w, head_status) ==
    IF faces = <<>> THEN head_status
    ELSE FaceLoop(Tail(faces), w, detect_head_turn(Head(faces), w))

W_NoFace == <<"FACE NOT VISIBLE - Position yourself in camera view">>
W_Left == <<"HEAD TURNED LEFT - Look straight at the camera">>
W_Right == <<"HEAD TURNED RIGHT - Look straight at the camera">>
W_NoHands == <<"NO HANDS VISIBLE - Keep both hands on the desk">>
W_OneHand == <<"ONLY ONE HAND VISIBLE - Show both hands on desk">>
\* f"PROHIBITED DEVICE: {gadget} - Remove immediately"
W_Device(gadget) == <<"PROHIBITED DEVICE: ", gadget, " - Remove immediately">>

\* detection.py 99-104
HeadWarning(head_status) ==
    IF head_status = "No Face Detected" THEN <<W_NoFace>>
    ELSE IF head_status = "Looking Left" THEN <<W_Left>>
    ELSE IF head_status = "Looking Right" THEN <<W_Right>>
    ELSE <<>>

\* the one-hand branch taken for two hands as well
HandWarning_atmost(hand_count) ==
    IF hand_count = 0 THEN <<W_NoHands>>
    ELSE IF hand_count <= 2 THEN <<W_OneHand>>
    ELSE <<>>

\* the two messages exchanged
HandWarning_swapped(hand_count) ==
    IF hand_count = 0 THEN <<W_OneHand>>
    ELSE IF hand_count = 1 THEN <<W_NoHands>>
    ELSE <<>>

\* detection.py 107-110
HandWarning(hand_count) ==
    IF hand_count = 0 THEN <<W_NoHands>>
    ELSE IF hand_count = 1 THEN <<W_OneHand>>
    ELSE <<>>

\* detection.py 112-114
GadgetWarnings(gadgets) == [i \in 1..Len(gadgets) |-> W_Device(gadgets[i])]

\* the device warnings appended before the hand warning
Aggregate_gadgets_first(head_status, hand_count, gadgets) ==
    [warnings |-> HeadWarning(head_status) \o GadgetWarnings(gadgets)
                      \o HandWarning(hand_count),
     head_status |-> head_status,
     hand_count |-> hand_count,
     gadgets |-> gadgets]

\* detection.py 96-116: the warnings list and the returned tuple
Aggregate(head_status, hand_count, gadgets) ==
    [warnings |-> HeadWarning(head_status) \o HandWarning(hand_count)
                      \o GadgetWarnings(gadgets),
     head_status |-> head_status,
     hand_count |-> hand_count,
     gadgets |-> gadgets]

\* the warnings list kept on the monitor and never cleared between calls
process_frame_accumulating(f, p) ==
    [Aggregate(FaceLoop(f.faces, f.w, "No Face Detected"),
               Len(f.hands),
               detect_gadget(f.boxes, p))
        EXCEPT !.warnings = (IF last.kind = "result" THEN last.warnings ELSE <<>>) \o @]

\* detection.py 77-116.  f.faces is multi_face_landmarks and f.hands is
\* multi_hand_landmarks (None and the empty list both have no element),
\* f.boxes the labels of results[0].boxes.
process_frame(f, p) ==
    Aggregate(FaceLoop(f.faces, f.w, "No Face Detected"),
              Len(f.hands),
              detect_gadget(f.boxes, p))

----------------------------------------------------------------------------
(* Frames: what the landmark provider and the object detector report.      *)

\* landmark[1].x values; <<n, 640>> is pixel column n of a frame 640 wide
Forward_x == <<260, 640>>
Left_x == <<259, 640>>
Right_x == <<381, 640>>

\* The frames of the pipeline runs, of the head-orientation runs, of the
\* several-faces runs and of the gadget-filter runs: widths, lists of faces,
\* of hands and of boxes.
PipelineFrames ==
    [ws |-> {640},
     faces |-> {<<>>, <<Left_x>>, <<Forward_x>>, <<Right_x>>},
     hands |-> SeqsUpTo({"hand"}, MaxHands),
     boxes |-> SeqsUpTo({"cell phone", "laptop", "person"}, MaxDet)]

HeadFrames ==
    [ws |-> {640, 641, 128},
     faces |-> {<<x>> : x \in {Left_x, Forward_x, <<380, 640>>, Right_x,
                               <<519, 1280>>, <<761, 1280>>,
                               <<3, 128>>, <<4, 128>>, <<124, 128>>,
                               <<125, 128>>, <<1, 2>>}},
     hands |-> {<<"hand", "hand">>},
     boxes |-> {<<>>}]

FacesFrames ==
    [ws |-> {640},
     faces |-> SeqsUpTo({Left_x, Forward_x, Right_x}, MaxFaces),
     hands |-> {<<"hand", "hand">>, <<"hand">>},
     boxes |-> {<<>>, <<"laptop">>}]

GadgetFrames ==
    [ws |-> {640},
     faces |-> {<<Forward_x>>},
     hands |-> {<<"hand", "hand">>},
     boxes |-> SeqsUpTo(AllLabels, MaxDet)]

Frames(D) == [w : D.ws, faces : D.faces, hands : D.hands, boxes : D.boxes]

\* one list is the other with at most one element added at the end
Near(x, y) ==
    \/ x = y
    \/ Len(x) = Len(y) + 1 /\ SubSeq(x, 1, Len(y)) = y
    \/ Len(y) = Len(x) + 1 /\ SubSeq(y, 1, Len(x)) = x

\* consecutive reads of the camera differ in at most one of the four, and by
\* at most one face, hand or box
NextFrames(f, D) ==
    {[f EXCEPT !.w = w] : w \in D.ws}
    \cup {[f EXCEPT !.faces = x] : x \in {y \in D.faces : Near(y, f.faces)}}
    \cup {[f EXCEPT !.hands = x] : x \in {y \in D.hands : Near(y, f.hands)}}
    \cup {[f EXCEPT !.boxes = x] : x \in {y \in D.boxes : Near(y, f.boxes)}}

\* the display names the labels above can put into a set
Producible == UNION {Range(BoxGadgets[l]) : l \in AllLabels}

HashOrders == Perms(Producible)

Procs == {"backend_server", "detection"}

----------------------------------------------------------------------------
(* The two callers.                                                        *)

NoResult ==
    [handler |-> "none", kind |-> "none", warnings |-> <<>>,
     head_status |-> "unknown", hand_count |-> 0, gadgets |-> <<>>,
     saved |-> FALSE, color |-> "none",
     prev |-> "none", same |-> TRUE, sameSets |-> TRUE]

\* How a result compares with the one before it, when both are results for
\* the same frame: prev is the earlier caller, same says that the two results
\* agree element for element (and, for one caller, in the evidence decision),
\* sameSets that they agree up to the order of warnings and gadgets.
Rerun(f, r, saved, handler) ==
    IF last.kind = "result" /\ f = frame
    THEN [prev |-> last.handler,
          same |-> /\ r.warnings = last.warnings
                   /\ r.head_status = last.head_status
                   /\ r.hand_count = last.hand_count
                   /\ r.gadgets = last.gadgets
                   /\ (last.handler = handler => saved = last.saved),
          sameSets |-> /\ Range(r.warnings) = Range(last.warnings)
                       /\ r.head_status = last.head_status
                       /\ r.hand_count = last.hand_count
                       /\ Range(r.gadgets) = Range(last.gadgets)]
    ELSE [prev |-> "none", same |-> TRUE, sameSets |-> TRUE]

\* the condition of run() used in the handler
evidence_required_gadgets_only(warnings, gadgets) == gadgets # <<>>

\* backend_server.py 288: if warnings or gadgets
evidence_required(warnings, gadgets) == warnings # <<>> \/ gadgets # <<>>

\* a screenshot is skipped when the iteration before took one
run_saves_debounced(warnings, gadgets) ==
    gadgets # <<>> /\ ~(last.handler = "run" /\ last.saved)

\* detection.py 154: if gadgets
run_saves(warnings, gadgets) == gadgets # <<>>

\* green for two hands or more
Verdict_two_or_more(head_status, hand_count, gadgets) ==
    IF head_status = "Looking Forward" /\ hand_count >= 2 /\ gadgets = <<>>
    THEN "green" ELSE "red"

\* detection.py 136-139
Verdict(head_status, hand_count, gadgets) ==
    IF head_status = "Looking Forward" /\ hand_count = 2 /\ gadgets = <<>>
    THEN "green" ELSE "red"

InitOver(D) ==
    /\ frame \in Frames(D)
    /\ hashOrder \in [Procs -> HashOrders]
    /\ DETECTION_AVAILABLE \in BOOLEAN
    /\ running = TRUE
    /\ last = NoResult

\* POST /api/detect while the detection module could not be imported
DetectUnavailable ==
    /\ ~DETECTION_AVAILABLE
    /\ last' = [NoResult EXCEPT !.handler = "detect_violations",
                                !.kind = "unavailable",
                                !.warnings = <<<<"Detection system not available">>>>]
    /\ UNCHANGED <<frame, hashOrder, DETECTION_AVAILABLE, running>>

\* POST /api/detect with a body cv2.imdecode rejects: HTTP 400
DetectInvalidImage ==
    /\ DETECTION_AVAILABLE
    /\ last' = [NoResult EXCEPT !.handler = "detect_violations",
                                !.kind = "bad_image"]
    /\ UNCHANGED <<frame, hashOrder, DETECTION_AVAILABLE, running>>

\* POST /api/detect with a decodable frame
DetectViolations(D) ==
    /\ DETECTION_AVAILABLE
    /\ \E f \in NextFrames(frame, D) :
      \E r \in {process_frame(f, "backend_server")} :
        LET screenshot == evidence_required(r.warnings, r.gadgets)
            re == Rerun(f, r, screenshot, "detect_violations")
        IN /\ frame' = f
           /\ last' = [handler |-> "detect_violations", kind |-> "result",
                       warnings |-> r.warnings, head_status |-> r.head_status,
                       hand_count |-> r.hand_count, gadgets |-> r.gadgets,
                       saved |-> screenshot, color |-> "none",
                       prev |-> re.prev, same |-> re.same,
                       sameSets |-> re.sameSets]
    /\ UNCHANGED <<hashOrder, DETECTION_AVAILABLE, running>>

\* one iteration of the while-loop of run(); quit: 'q' was pressed
RunIteration(D) ==
    /\ running
    /\ \E f \in NextFrames(frame, D), quit \in BOOLEAN :
      \E r \in {process_frame(f, "detection")} :
        LET screenshot == run_saves(r.warnings, r.gadgets)
            re == Rerun(f, r, screenshot, "run")
        IN /\ frame' = f
           /\ last' = [handler |-> "run", kind |-> "result",
                       warnings |-> r.warnings, head_status |-> r.head_status,
                       hand_count |-> r.hand_count, gadgets |-> r.gadgets,
                       saved |-> screenshot,
                       color |-> Verdict(r.head_status, r.hand_count, r.gadgets),
                       prev |-> re.prev, same |-> re.same,
                       sameSets |-> re.sameSets]
           /\ running' = ~quit
    /\ UNCHANGED <<hashOrder, DETECTION_AVAILABLE>>

\* cap.read() returns ret = False: the loop is left
RunReadFails ==
    /\ running
    /\ running' = FALSE
    /\ UNCHANGED <<frame, hashOrder, DETECTION_AVAILABLE, last>>

Init == InitOver(PipelineFrames)

Next ==
    \/ DetectUnavailable
    \/ DetectInvalidImage
    \/ DetectViolations(PipelineFrames)
    \/ RunIteration(PipelineFrames)
    \/ RunReadFails

Spec == Init /\ [][Next]_vars

InitHead == InitOver(HeadFrames)

NextHead ==
    \/ DetectUnavailable
    \/ DetectInvalidImage
    \/ DetectViolations(HeadFrames)
    \/ RunIteration(HeadFrames)
    \/ RunReadFails

SpecHead == InitHead /\ [][NextHead]_vars

InitGadget == InitOver(GadgetFrames)

NextGadget ==
    \/ DetectUnavailable
    \/ DetectInvalidImage
    \/ DetectViolations(GadgetFrames)
    \/ RunIteration(GadgetFrames)
    \/ RunReadFails

SpecGadget == InitGadget /\ [][NextGadget]_vars

InitFaces == InitOver(FacesFrames)

NextFaces ==
    \/ DetectUnavailable
    \/ DetectInvalidImage
    \/ DetectViolations(FacesFrames)
    \/ RunIteration(FacesFrames)
    \/ RunReadFails

SpecFaces == InitFaces /\ [][NextFaces]_vars

----------------------------------------------------------------------------
(* Properties.                                                             *)

IsResult == last.kind = "result"

IsHeadWarning(x) == x \in {W_NoFace, W_Left, W_Right}
IsHandWarning(x) == x \in {W_NoHands, W_OneHand}
IsDeviceWarning(x) == Len(x) = 3 /\ x[1] = "PROHIBITED DEVICE: "

\* the device warnings of a warnings list, in the order they stand in it
DeviceNames(warnings) ==
    LET d == SelectSeq(warnings, IsDeviceWarning)
    IN [i \in 1..Len(d) |-> d[i][2]]

RECURSIVE FirstOccurrences(_)
\* a list without its repeated elements, each kept where it first stands
FirstOccurrences(s) ==
    IF s = <<>> THEN <<>>
    ELSE LET init == FirstOccurrences(SubSeq(s, 1, Len(s) - 1))
         IN IF s[Len(s)] \in Range(init) THEN init ELSE Append(init, s[Len(s)])

\* the key the catalog gives for a display name
KeyIndex(display) ==
    CHOOSE i \in 1..Len(prohibited_items) : prohibited_items[i].display = display

\* C1: a frame handled by detect_violations is persisted exactly when
\* warnings or gadgets is non-empty, and on every output of process_frame
\* that condition is the same as warnings being non-empty.
C1_EvidenceRule ==
    IsResult =>
        /\ (last.handler = "detect_violations" =>
                (last.saved <=> (Len(last.warnings) > 0 \/ Len(last.gadgets) > 0)))
        /\ ((Len(last.warnings) > 0 \/ Len(last.gadgets) > 0)
                <=> Len(last.warnings) > 0)
        /\ (Len(last.gadgets) > 0 =>
                \E i \in 1..Len(last.warnings) : IsDeviceWarning(last.warnings[i]))

C1_Witness ==
    /\ IsResult
    /\ last.handler = "detect_violations"
    /\ last.saved
    /\ last.gadgets = <<>>
    /\ last.warnings = <<W_OneHand>>

\* the shape every warnings list has: at most one head warning, then at most
\* one hand warning, then device warnings only
HeadHandThenDevices(warnings) ==
    /\ \A i \in 1..Len(warnings) :
          \/ IsHeadWarning(warnings[i]) /\ i = 1
          \/ IsHandWarning(warnings[i])
               /\ \A j \in 1..(i - 1) : IsHeadWarning(warnings[j])
          \/ IsDeviceWarning(warnings[i])
               /\ \A j \in (i + 1)..Len(warnings) : IsDeviceWarning(warnings[j])
    /\ Cardinality({i \in 1..Len(warnings) : IsHandWarning(warnings[i])}) <= 1

\* C2 as claimed: head warning, hand warning, then one device warning per
\* gadget in the order the gadgets were first discovered among the boxes.
C2_DiscoveryOrder ==
    IsResult =>
        /\ HeadHandThenDevices(last.warnings)
        /\ DeviceNames(last.warnings) = FirstOccurrences(BoxLoop(frame.boxes))

\* C2: head warning, hand warning, then one device warning per element of
\* the returned gadgets list, in the order of that list (the iteration order
\* of the set, which need not be the order of discovery).
C2_ListOrder ==
    IsResult =>
        /\ HeadHandThenDevices(last.warnings)
        /\ DeviceNames(last.warnings) = last.gadgets
        /\ Range(last.gadgets) = Range(BoxLoop(frame.boxes))

C2_Witness ==
    /\ IsResult
    /\ Len(last.warnings) = 4
    /\ IsHeadWarning(last.warnings[1])
    /\ IsHandWarning(last.warnings[2])
    /\ frame.boxes = <<"cell phone", "laptop">>
    /\ DeviceNames(last.warnings) = <<"Laptop Computer", "Mobile Phone">>

C4_GadgetsDistinct ==
    IsResult =>
        /\ \A i, j \in 1..Len(last.gadgets) :
              last.gadgets[i] = last.gadgets[j] => i = j
        /\ \A i, j \in 1..Len(last.warnings) :
              (/\ IsDeviceWarning(last.warnings[i])
               /\ last.warnings[i] = last.warnings[j]) => i = j

C4_Witness ==
    /\ IsResult
    /\ frame.boxes = <<"Cell Phone", "cell phone">>
    /\ last.gadgets = <<"Mobile Phone">>
    /\ Len(BoxLoop(frame.boxes)) = 3

\* C5: head_status Forward, hand_count 2 and no gadget give an empty
\* warnings list, and neither caller persists the frame.
C5_CompliantFrame ==
    (/\ IsResult
     /\ last.head_status = "Looking Forward"
     /\ last.hand_count = 2
     /\ last.gadgets = <<>>)
        => (last.warnings = <<>> /\ ~last.saved)

C5_Witness ==
    /\ IsResult
    /\ last.handler = "detect_violations"
    /\ frame.faces = <<Forward_x>>
    /\ Len(frame.hands) = 2
    /\ last.head_status = "Looking Forward"
    /\ last.hand_count = 2
    /\ last.gadgets = <<>>
    /\ frame.boxes = <<"person">>

\* nose_x = (x[1] / x[2]) * w against a pixel column
NoseBelow(x, w, col) == x[1] * w < col * x[2]
NoseAbove(x, w, col) == x[1] * w > col * x[2]

\* w // 2
HalfWidth(w) == CHOOSE c \in 0..w : 2 * c <= w /\ w < 2 * c + 2

\* C6: with center = w // 2 the result is Left exactly when
\* nose_x < center - 60, Right exactly when nose_x > center + 60 and Forward
\* otherwise; for w = 640 columns 259, 260, 380, 381 give Left, Forward,
\* Forward, Right.
C6_HeadTurnThresholds ==
    (IsResult /\ Len(frame.faces) = 1) =>
        LET x == frame.faces[1]
            w == frame.w
            center == HalfWidth(w)
        IN /\ last.head_status = "Looking Left" <=> NoseBelow(x, w, center - 60)
           /\ last.head_status = "Looking Right" <=> NoseAbove(x, w, center + 60)
           /\ last.head_status = "Looking Forward"
                 <=> (~NoseBelow(x, w, center - 60) /\ ~NoseAbove(x, w, center + 60))
           /\ (w = 640 /\ x = <<259, 640>>) => last.head_status = "Looking Left"
           /\ (w = 640 /\ x = <<260, 640>>) => last.head_status = "Looking Forward"
           /\ (w = 640 /\ x = <<380, 640>>) => last.head_status = "Looking Forward"
           /\ (w = 640 /\ x = <<381, 640>>) => last.head_status = "Looking Right"

C6_Witness ==
    /\ IsResult
    /\ frame.w = 640
    /\ frame.faces = <<<<380, 640>>>>
    /\ last.head_status = "Looking Forward"

\* C7: hand_count is the number of hand landmark sets, unclamped; with 0
\* hands the list has the no-hands warning and not the one-hand warning,
\* with 1 hand the reverse, with 2 or more neither.
C7_HandWarnings ==
    IsResult =>
        /\ last.hand_count = Len(frame.hands)
        /\ (last.hand_count = 0 =>
                (W_NoHands \in Range(last.warnings)
                 /\ W_OneHand \notin Range(last.warnings)))
        /\ (last.hand_count = 1 =>
                (W_OneHand \in Range(last.warnings)
                 /\ W_NoHands \notin Range(last.warnings)))
        /\ (last.hand_count >= 2 =>
                (W_NoHands \notin Range(last.warnings)
                 /\ W_OneHand \notin Range(last.warnings)))

C7_Witness ==
    /\ IsResult
    /\ Len(frame.hands) = 3
    /\ last.hand_count = 3
    /\ last.warnings = <<W_Left>>

\* a frame that shows an absent face, a turned head, fewer than two hands
\* or a prohibited item
NonCompliantSignal ==
    \/ last.head_status \in {"No Face Detected", "Looking Left", "Looking Right"}
    \/ last.hand_count < 2
    \/ last.gadgets # <<>>

\* C8 as claimed: in run() as in detect_violations every processed frame
\* with a non-compliant signal is persisted on that iteration.
C8_EverySignalPersisted ==
    (IsResult /\ NonCompliantSignal) => last.saved

\* C8: detect_violations persists every processed frame with a
\* non-compliant signal on that request; run() persists a frame on that
\* iteration exactly when gadgets is non-empty; neither looks at the frames
\* before.
C8_PersistedPerCaller ==
    IsResult =>
        /\ (last.handler = "detect_violations" /\ NonCompliantSignal) => last.saved
        /\ last.handler = "run" => (last.saved <=> last.gadgets # <<>>)

C8_Witness ==
    /\ IsResult
    /\ last.handler = "run"
    /\ last.prev = "run"
    /\ last.saved
    /\ last.same
    /\ last.color = "red"

\* per label: the display name of the first catalog key, in enumeration
\* order, contained in label.lower(), if there is one
FirstKey ==
    [label \in AllLabels |->
        LET hits == {i \in 1..Len(prohibited_items) :
                        IsSubstring(prohibited_items[i].key, StrLower(Chars(label)))}
        IN IF hits = {} THEN <<>>
           ELSE <<prohibited_items[CHOOSE i \in hits : \A j \in hits : i <= j].display>>]

\* C9: each box contributes the display name of the first catalog key
\* contained in its lowercased label, and nothing when there is none; the
\* lookup of the raw label adds no name the substring loop did not add for
\* that box.
C9_FirstKeyWins ==
    IsResult =>
        /\ Range(last.gadgets) = UNION {Range(FirstKey[l]) : l \in Range(frame.boxes)}
        /\ \A l \in Range(frame.boxes) :
              /\ SubstringHits[l] = FirstKey[l]
              /\ Range(ExactHits[l]) \subseteq Range(SubstringHits[l])

C9_Witness ==
    /\ IsResult
    /\ frame.boxes = <<"keyboard laptop", "cell phone">>
    /\ BoxLoop(frame.boxes) = <<"Laptop Computer", "Mobile Phone", "Mobile Phone">>
    /\ Len(last.gadgets) = 2

\* the classification of one face landmark set
Orientation(x, w) ==
    IF NoseBelow(x, w, HalfWidth(w) - 60) THEN "Looking Left"
    ELSE IF NoseAbove(x, w, HalfWidth(w) + 60) THEN "Looking Right"
    ELSE "Looking Forward"

\* C10: without a face landmark set head_status is NoFace; with one or more
\* it is the classification of the last set, whatever the earlier ones.
C10_LastFaceWins ==
    IsResult =>
        IF frame.faces = <<>>
        THEN last.head_status = "No Face Detected"
        ELSE last.head_status = Orientation(frame.faces[Len(frame.faces)], frame.w)

C10_Witness ==
    /\ IsResult
    /\ frame.faces = <<Left_x, Forward_x>>
    /\ last.head_status = "Looking Forward"

\* 1 when the condition holds, 0 otherwise
Count(b) == IF b THEN 1 ELSE 0

\* C11: the number of warnings is one for a head_status other than Forward,
\* plus one for fewer than two hands, plus the number of gadgets; so the
\* list is empty exactly for Forward, two or more hands and no gadget.  The
\* green verdict of run() (Forward, exactly two hands, no gadget) comes with
\* no warning and no evidence, and a frame without warnings that shows more
\* than two hands is not green.
C11_WarningCount ==
    IsResult =>
        /\ Len(last.warnings) =
              Count(last.head_status # "Looking Forward")
              + Count(last.hand_count < 2)
              + Len(last.gadgets)
        /\ last.warnings = <<>> <=>
              (/\ last.head_status = "Looking Forward"
               /\ last.hand_count >= 2
               /\ last.gadgets = <<>>)
        /\ last.handler = "run" =>
              /\ last.color = "green" => (last.warnings = <<>> /\ ~last.saved)
              /\ (last.warnings = <<>> /\ last.hand_count > 2) => last.color = "red"

C11_Witness ==
    /\ IsResult
    /\ last.handler = "run"
    /\ last.warnings = <<>>
    /\ ~last.saved
    /\ last.hand_count = 3
    /\ last.color = "red"

====
